---------------------------- MODULE Spec2Model ----------------------------
(***************************************************************************)
(* A model of the XML2 renderer of mmark (xml2/renderer.go): the visitor   *)
(* RenderNode and its handlers, the render state they keep (documentMatter,*)
(* section, title, headingIDs), the output they write, and the tree walk   *)
(* that drives them (RenderHeader, ast.WalkFunc over the document,         *)
(* RenderFooter).                                                          *)
(*                                                                         *)
(* The output is a sequence of tokens [t |-> text, n |-> node, e |->       *)
(* entering]: t is the text of one write, n and e the node and the         *)
(* direction RenderNode was called with when it was written (n = Nil for   *)
(* RenderHeader, with e = TRUE, and for RenderFooter, with e = FALSE).     *)
(***************************************************************************)
EXTENDS Integers, Sequences, FiniteSets, TLC

VARIABLES
    IDTag,           \* html.IDTag, a variable of the package gomarkdown/html
    opts,            \* Renderer.opts: [Flags, Callout, RenderNodeHook, Comments]
    nodes,           \* the input tree: node id -> its type and fields
    children,        \* node id -> [arr, len]: the node's Children slice
    documentMatter,  \* Renderer.documentMatter
    section,         \* Renderer.section: a Heading node, or Nil
    title,           \* Renderer.title
    headingIDs,      \* Renderer.headingIDs: a map from string to int
    w,               \* the io.Writer: what was written so far
    log,             \* every call of RenderNode so far: [node, entering, status]
    stack,           \* the walk: the containers entered and not yet left
    pc               \* "new", "header", "walk", "footer", "done", "panic"

vars == <<IDTag, opts, nodes, children, documentMatter, section, title, headingIDs,
          w, log, stack, pc>>

(***************************************************************************)
(* Bounds of the model.                                                    *)
(***************************************************************************)
MaxBlocks == 4
MaxHeadings == 3
MaxFigBlocks == 2
MaxFlagBlocks == 3
MaxKindBlocks == 1
MaxHookBlocks == 2
MaxCodeBlocks == 2
MaxMixBlocks == 4
MaxNewBlocks == 3
MaxItems == 3

Nil == 0
Root == 1

Max(S) == CHOOSE x \in S : \A y \in S : y <= x

\* F(v), with v evaluated once: the value a statement leaves, read by the
\* statements after it.
With(v, F(_)) == CHOOSE r \in {F(x) : x \in {v}} : TRUE

(***************************************************************************)
(* The input tree.  A tree is written nested, [kind, fields, kids], and    *)
(* flattened in pre-order: node 1 is the Document.                         *)
(***************************************************************************)
Node0 ==
    [kind |-> "Document", Matter |-> "none", Level |-> 0, HeadingID |-> "",
     IsSpecial |-> FALSE, Literal |-> <<>>, IsHeader |-> FALSE,
     Destination |-> <<>>, Type |-> <<>>, Title |-> <<>>, TitleIsNil |-> TRUE,
     ID |-> "", Item |-> <<>>, Subitem |-> <<>>, Primary |-> FALSE,
     ListFlags |-> {}, Start |-> 0, IsFootnotesList |-> FALSE,
     RefLinkIsNil |-> TRUE, kids |-> <<>>]

TextT(lit) == [Node0 EXCEPT !.kind = "Text", !.Literal = lit]
MatterT(m) == [Node0 EXCEPT !.kind = "DocumentMatter", !.Matter = m]
HeadingT(level, id, special, lit) ==
    [Node0 EXCEPT !.kind = "Heading", !.Level = level, !.HeadingID = id,
                  !.IsSpecial = special, !.Literal = lit,
                  !.kids = <<TextT(<<"T">>)>>]
ParagraphT == [Node0 EXCEPT !.kind = "Paragraph", !.kids = <<TextT(<<"a", "<">>)>>]
TitleT == [Node0 EXCEPT !.kind = "Title"]
CaptionT == [Node0 EXCEPT !.kind = "Caption", !.kids = <<TextT(<<"cap", "&">>)>>]
CodeBlockT == [Node0 EXCEPT !.kind = "CodeBlock", !.Literal = <<"x", ">">>]
TableCellT(h) ==
    [Node0 EXCEPT !.kind = "TableCell", !.IsHeader = h, !.kids = <<TextT(<<"c">>)>>]
TableRowT(h) == [Node0 EXCEPT !.kind = "TableRow", !.kids = <<TableCellT(h)>>]
TableT ==
    [Node0 EXCEPT !.kind = "Table",
        !.kids = <<[Node0 EXCEPT !.kind = "TableHeader", !.kids = <<TableRowT(TRUE)>>],
                   [Node0 EXCEPT !.kind = "TableBody"]>>]
\* The parser appends the caption after the figure's content.
FigureT(content, withCaption) ==
    [Node0 EXCEPT !.kind = "CaptionFigure",
        !.kids = <<content>> \o (IF withCaption THEN <<CaptionT>> ELSE <<>>)]
DocumentT(blocks) == [Node0 EXCEPT !.kids = blocks]

\* A node of type k without fields, around kids; a paragraph around kids.
KindT(k, kids) == [Node0 EXCEPT !.kind = k, !.kids = kids]
ParaT(kids) == KindT("Paragraph", kids)
ImageT(withTitle) ==
    [Node0 EXCEPT !.kind = "Image", !.Destination = <<"img.png", "&">>,
                  !.TitleIsNil = ~withTitle,
                  !.Title = IF withTitle THEN <<"name">> ELSE <<>>,
                  !.kids = <<TextT(<<"alt">>)>>]
LinkT ==
    [Node0 EXCEPT !.kind = "Link", !.Destination = <<"http://x/?a", "&", "b">>,
                  !.kids = <<TextT(<<"here", "<">>)>>]
MathBlockT == [Node0 EXCEPT !.kind = "MathBlock", !.Literal = <<"x", "<", "y">>]
ListItemT(flags, kids) ==
    [Node0 EXCEPT !.kind = "ListItem", !.ListFlags = flags, !.kids = kids]
ListT(flags, start, items) ==
    [Node0 EXCEPT !.kind = "List", !.ListFlags = flags, !.Start = start,
                  !.kids = items]

RECURSIVE Size(_), SizeAll(_), Flat(_, _, _), FlatAll(_, _, _), KidIds(_, _)
Size(t) == 1 + SizeAll(t.kids)
SizeAll(ts) == IF ts = <<>> THEN 0 ELSE Size(Head(ts)) + SizeAll(Tail(ts))
KidIds(ts, id) ==
    IF ts = <<>> THEN <<>> ELSE <<id>> \o KidIds(Tail(ts), id + Size(Head(ts)))
Flat(t, id, parent) ==
    <<[f \in (DOMAIN t \ {"kids"}) \cup {"Parent", "Children"} |->
         CASE f = "Parent" -> parent
           [] f = "Children" -> KidIds(t.kids, id + 1)
           [] OTHER -> t[f]]>>
    \o FlatAll(t.kids, id + 1, id)
FlatAll(ts, id, parent) ==
    IF ts = <<>> THEN <<>>
    ELSE Flat(Head(ts), id, parent) \o FlatAll(Tail(ts), id + Size(Head(ts)), parent)

SeqsUpTo(S, n) == UNION {[1..k -> S] : k \in 0..n}

\* The blocks of the documents each specification renders.
SectionBlocks ==
    {MatterT("front"), MatterT("main"), MatterT("back"),
     HeadingT(1, "", FALSE, <<>>), HeadingT(2, "", FALSE, <<>>),
     HeadingT(1, "", TRUE, <<"note">>), HeadingT(1, "", TRUE, <<"Abstract">>),
     ParagraphT, TitleT}

(***************************************************************************)
(* The tree as the renderer reads it.                                      *)
(***************************************************************************)
Kind(n) == nodes[n].kind
\* ast.Node.AsContainer() != nil: the node types that embed ast.Container.
Containers ==
    {"Document", "DocumentMatter", "Heading", "Paragraph", "CaptionFigure",
     "Caption", "Table", "TableHeader", "TableBody", "TableRow", "TableCell",
     "TableFooter", "Emph", "Strong", "Del", "List", "ListItem", "BlockQuote",
     "Aside", "CrossReference", "Link", "Image", "MathBlock", "DocumentIndex",
     "IndexLetter", "IndexItem", "IndexSubItem", "IndexLink",
     "Subscript", "Superscript", "Footnotes"}
IsContainer(n) == Kind(n) \in Containers

\* n.GetChildren(): the slice's first len elements of its backing array.
GetChildren(s, n) == SubSeq(s.children[n].arr, 1, s.children[n].len)

\* ast.RemoveFromTree(n): n's children are dropped, and n is cut out of its
\* parent's slice by append(a[:i], a[i+1:]...), which moves the elements after
\* it down inside the same backing array and shortens the slice by one (the
\* array's last place keeps its old value).  n.Parent is left as it was.
RemoveFromTree(s, n) ==
    LET p == nodes[n].Parent
        a == s.children[p]
        I == {i \in 1..a.len : a.arr[i] = n}
    IN  IF p = Nil THEN s
        ELSE LET s1 == [s EXCEPT !.children[n] = [arr |-> <<>>, len |-> 0]]
             IN  IF I = {} THEN s1
                 ELSE LET i == CHOOSE j \in I : \A k \in I : j <= k
                          arr2 == [j \in 1..Len(a.arr) |->
                                     IF j >= i /\ j < a.len THEN a.arr[j + 1]
                                     ELSE a.arr[j]]
                      IN  [s1 EXCEPT !.children[p] = [arr |-> arr2, len |-> a.len - 1]]

(***************************************************************************)
(* Writing.                                                                *)
(***************************************************************************)
Tok(s, str) == [t |-> str, n |-> s.at, e |-> s.ent]

\* r.outs(w, str), r.out(w, bytes): one write; an empty string writes nothing.
outs(s, str) == IF str = "" THEN s ELSE [s EXCEPT !.w = Append(@, Tok(s, str))]

\* r.cr(w)
cr(s) == outs(s, "\n")

\* r.outOneOf(w, outFirst, first, second)
outOneOf(s, outFirst, first, second) ==
    IF outFirst THEN outs(s, first) ELSE outs(s, second)

\* r.outOneOfCr(w, outFirst, first, second)
outOneOfCr(s, outFirst, first, second) ==
    IF outFirst THEN outs(cr(s), first) ELSE cr(outs(s, second))

RECURSIVE Join(_, _)
\* strings.Join(a, sep)
Join(a, sep) ==
    IF a = <<>> THEN ""
    ELSE IF Len(a) = 1 THEN a[1]
    ELSE a[1] \o sep \o Join(Tail(a), sep)

\* tagWithAttributes(name, attrs)
tagWithAttributes(name, attrs) ==
    (IF Len(attrs) > 0 THEN name \o " " \o Join(attrs, " ") ELSE name) \o ">"

\* r.outTag(w, name, attrs)
outTag(s, name, attrs) == outs(s, tagWithAttributes(name, attrs))

\* html.BlockAttrs(node): the documents of this model carry no block attributes.
BlockAttrs(n) == <<>>

\* html.EscapeHTML(w, literal).  A literal is a sequence of pieces, each a run
\* of ordinary characters or one of the characters that are escaped.
EscapeChar(c) ==
    CASE c = "&" -> "&amp;"
      [] c = "<" -> "&lt;"
      [] c = ">" -> "&gt;"
      [] c = "\"" -> "&quot;"
      [] OTHER -> c
EscapeHTML(s, lit) == outs(s, Join([i \in 1..Len(lit) |-> EscapeChar(lit[i])], ""))

\* xml.IsAbstract(literal)
IsAbstract(lit) == lit \in {<<"abstract">>, <<"Abstract">>, <<"ABSTRACT">>}

(***************************************************************************)
(* The section and the heading identifiers.                                *)
(***************************************************************************)
\* r.sectionClose(w, new): closes the open section, if any, with the closing
\* tag of the element its heading opened, and records new as the open one.
sectionClose(s, new) ==
    LET tag == IF nodes[s.section].IsSpecial
               THEN IF IsAbstract(nodes[s.section].Literal)
                    THEN "</abstract>" ELSE "</note>"
               ELSE "</section>"
        s1 == IF s.section = Nil THEN s ELSE cr(outs(s, tag))
    IN  [s1 EXCEPT !.section = new]

\* r.ensureUniqueHeadingID(id): [the new headingIDs, the identifier returned].
\* The first occurrence of a candidate is returned as it is and recorded with
\* count 1; a later one increments the count and is returned with the count
\* as a numeric suffix.
ensureUniqueHeadingID(ids, id) ==
    IF id \notin DOMAIN ids
    THEN [ids |-> [k \in DOMAIN ids \cup {id} |-> IF k = id THEN 1 ELSE ids[k]],
          id |-> id]
    ELSE [ids |-> [ids EXCEPT ![id] = @ + 1],
          id |-> id \o "-" \o ToString(ids[id] + 1)]

(***************************************************************************)
(* The handlers.  A handler takes the renderer, the writer and the tree    *)
(* (the record s) and gives them back as it leaves them.                   *)
(***************************************************************************)
\* r.text(w, text)
text(s, n) ==
    LET p == nodes[n].Parent IN
    IF p # Nil /\ Kind(p) = "Link" THEN outs(s, Join(nodes[n].Literal, ""))
    ELSE IF p # Nil /\ Kind(p) = "Heading"
    THEN IF nodes[p].IsSpecial /\ IsAbstract(nodes[p].Literal) THEN s
         ELSE outs(EscapeHTML(s, nodes[n].Literal), "\">")
    ELSE LET s1 == EscapeHTML(s, nodes[n].Literal)
         IN  IF p # Nil /\ Kind(p) = "Caption" THEN outs(s1, "\">") ELSE s1

\* A matter that opens the new region without closing the one before it.
matterOpensOnly(s, n) ==
    LET s0 == sectionClose(s, Nil)
        m  == nodes[n].Matter
        s1 == CASE m = "front" -> cr(outs(cr(s0), "<front>"))
                [] m = "main"  -> cr(outs(cr(s0), "<middle>"))
                [] m = "back"  -> cr(outs(cr(s0), "<back>"))
                [] OTHER -> s0
    IN  [s1 EXCEPT !.documentMatter = m]

\* A matter that refuses to go back to an earlier region.
matterForwardOnly(s, n) ==
    LET rank == [none |-> 0, front |-> 1, main |-> 2, back |-> 3]
        s0 == sectionClose(s, Nil)
        m  == nodes[n].Matter
    IN  IF rank[m] < rank[s.documentMatter] THEN s0
        ELSE [cr(outs(cr(s0), "<" \o m \o ">")) EXCEPT !.documentMatter = m]

\* A matter that forgets the heading identifiers of the region it leaves.
matterResetsIDs(s, n) ==
    LET s0 == sectionClose(s, Nil)
        m  == nodes[n].Matter
        s1 == CASE m = "front" -> cr(outs(cr(s0), "<front>"))
                [] m = "main"  -> cr(outs(cr(cr(outs(cr(s0), "</front>"))), "<middle>"))
                [] m = "back"  -> cr(outs(cr(cr(outs(cr(s0), "</middle>"))), "<back>"))
                [] OTHER -> s0
    IN  [s1 EXCEPT !.documentMatter = m, !.headingIDs = <<>>]

\* A matter that closes the open section after the region tags.
matterClosesLast(s, n) ==
    LET m  == nodes[n].Matter
        s1 == CASE m = "front" -> cr(outs(cr(s), "<front>"))
                [] m = "main"  -> cr(outs(cr(cr(outs(cr(s), "</front>"))), "<middle>"))
                [] m = "back"  -> cr(outs(cr(cr(outs(cr(s), "</middle>"))), "<back>"))
                [] OTHER -> s
    IN  [sectionClose(s1, Nil) EXCEPT !.documentMatter = m]

\* r.matter(w, node)
matter(s, n) ==
    LET s0 == sectionClose(s, Nil)
        m  == nodes[n].Matter
        s1 == CASE m = "front" -> cr(outs(cr(s0), "<front>"))
                [] m = "main"  -> cr(outs(cr(cr(outs(cr(s0), "</front>"))), "<middle>"))
                [] m = "back"  -> cr(outs(cr(cr(outs(cr(s0), "</middle>"))), "<back>"))
                [] OTHER -> s0
    IN  [s1 EXCEPT !.documentMatter = m]

\* A headingEnter that writes the heading's identifier as it is.
headingEnterRawID(s, n) ==
    LET h  == nodes[n]
        s0 == cr(s)
    IN  IF h.IsSpecial /\ IsAbstract(h.Literal) THEN outs(s0, "<abstract>")
        ELSE LET s2 == outs(s0, IF h.IsSpecial THEN "<note" ELSE "<section")
                 s3 == IF h.HeadingID # ""
                       THEN outs(outs(outs(s2, " anchor=\""), h.HeadingID), "\"")
                       ELSE s2
             IN  outs(s3, " title=\"")

\* A headingEnter that takes the identifier before it looks at the heading.
headingEnterAllocatesFirst(s, n) ==
    LET h  == nodes[n]
        s0 == cr(s)
        u  == ensureUniqueHeadingID(s0.headingIDs, h.HeadingID)
        s1 == IF h.HeadingID # "" THEN [s0 EXCEPT !.headingIDs = u.ids] ELSE s0
    IN  IF h.IsSpecial /\ IsAbstract(h.Literal) THEN outs(s1, "<abstract>")
        ELSE LET s2 == outs(s1, IF h.IsSpecial THEN "<note" ELSE "<section")
                 s3 == IF h.HeadingID # ""
                       THEN outs(outs(outs(s2, " anchor=\""), u.id), "\"")
                       ELSE s2
             IN  outs(s3, " title=\"")

\* r.headingEnter(w, heading).  The write of attr + ` title="` is cut into the
\* tokens ` anchor="`, the identifier, `"` and ` title="`.
headingEnter(s, n) ==
    LET h  == nodes[n]
        s0 == cr(s)
    IN  IF h.IsSpecial /\ IsAbstract(h.Literal) THEN outs(s0, "<abstract>")
        ELSE LET tag == IF h.IsSpecial THEN "<note" ELSE "<section"
                 u   == ensureUniqueHeadingID(s0.headingIDs, h.HeadingID)
                 s1  == IF h.HeadingID # "" THEN [s0 EXCEPT !.headingIDs = u.ids] ELSE s0
                 s2  == outs(s1, tag)
                 s3  == IF h.HeadingID # ""
                        THEN outs(outs(outs(s2, " anchor=\""), u.id), "\"")
                        ELSE s2
             IN  outs(s3, " title=\"")

\* r.headingExit(w, heading)
headingExit(s, n) == cr(s)

\* A heading that opens its element without closing the open one.
headingKeepsOpen(s, n, entering) ==
    IF ~entering THEN headingExit(s, n)
    ELSE headingEnter([s EXCEPT !.section = n], n)

\* A heading that closes the open section only when it is not deeper than it.
headingClosesByLevel(s, n, entering) ==
    IF ~entering THEN headingExit(s, n)
    ELSE IF s.section # Nil /\ nodes[n].Level > nodes[s.section].Level
         THEN headingEnter([s EXCEPT !.section = n], n)
         ELSE headingEnter(sectionClose(s, n), n)

\* r.heading(w, node, entering)
heading(s, n, entering) ==
    IF ~entering THEN headingExit(s, n)
    ELSE headingEnter(sectionClose(s, n), n)

\* r.hardBreak(w, node)
hardBreak(s) == cr(outs(s, "<vspace />"))

\* r.paragraphEnter(w, para); p is para.Parent (Nil for the &ast.Paragraph{}
\* that r.list makes up).
paragraphEnter(s, n, p) ==
    IF p # Nil /\ Kind(p) = "ListItem"
    THEN IF s.children[p].len > 1 /\ GetChildren(s, p)[1] # n THEN hardBreak(s) ELSE s
    ELSE outs(s, tagWithAttributes("<t", BlockAttrs(n)))

\* r.paragraphExit(w, para)
paragraphExit(s, n, p) ==
    IF p # Nil /\ Kind(p) = "ListItem" THEN s ELSE cr(outs(s, "</t>"))

\* r.paragraph(w, para, entering)
paragraph(s, n, entering) ==
    IF entering THEN paragraphEnter(s, n, nodes[n].Parent)
    ELSE paragraphExit(s, n, nodes[n].Parent)

\* r.titleBlock(w, node): the title block, written as one token.
titleBlock(s, n) == outs(s, "<rfc>")

\* r.EscapeHTMLCallouts(w, literal): a comment marker followed by the callout
\* prefix and an identifier becomes a callout reference, the rest is escaped.
RECURSIVE EscapeHTMLCallouts(_, _)
EscapeHTMLCallouts(s, lit) ==
    IF lit = <<>> THEN s
    ELSE IF Len(lit) >= 3 /\ lit[1] \in opts.Comments.markers /\ lit[2] = opts.Callout
         THEN EscapeHTMLCallouts(
                  outs(outs(outs(s, "<spanx style=\"emph\">"), lit[3]), "</spanx>"),
                  SubSeq(lit, 4, Len(lit)))
         ELSE EscapeHTMLCallouts(outs(s, EscapeChar(lit[1])), Tail(lit))

\* A codeBlock that writes the literal as it is.
codeBlockRaw(s, n) ==
    LET inFigure == Kind(nodes[n].Parent) = "CaptionFigure"
        attrs == BlockAttrs(n)
        s1 == IF inFigure THEN outTag(cr(s), "<artwork", attrs)
              ELSE outTag(cr(s), "<figure><artwork", attrs)
        s2 == outs(s1, Join(nodes[n].Literal, ""))
    IN  cr(IF inFigure THEN outs(s2, "</artwork>") ELSE outs(s2, "</artwork></figure>"))

\* r.codeBlock(w, codeBlock)
codeBlock(s, n) ==
    LET inFigure == Kind(nodes[n].Parent) = "CaptionFigure"
        attrs == BlockAttrs(n)
        s1 == IF inFigure THEN outTag(cr(s), "<artwork", attrs)
              ELSE outTag(cr(s), "<figure><artwork", attrs)
        s2 == IF ~opts.Comments.isNil THEN EscapeHTMLCallouts(s1, nodes[n].Literal)
              ELSE EscapeHTML(s1, nodes[n].Literal)
    IN  cr(IF inFigure THEN outs(s2, "</artwork>") ELSE outs(s2, "</artwork></figure>"))

\* r.tableCell(w, tableCell, entering); the cells of this model carry no
\* alignment.  ast.GetPrevNode(cell) is nil for the first child of its parent.
tableCell(s, n, entering) ==
    IF ~entering THEN cr(outOneOf(s, nodes[n].IsHeader, "</ttcol>", "</c>"))
    ELSE LET openTag == IF nodes[n].IsHeader THEN "<ttcol" ELSE "<c"
             first == GetChildren(s, nodes[n].Parent)[1] = n
         IN  outTag(IF first THEN cr(s) ELSE s, openTag, <<>>)

\* r.tableBody(w, node, entering)
tableBody(s, n, entering) == outOneOfCr(s, entering, "", "")

\* xml.Is2119(literal)
Is2119(lit) == lit \in {<<"MUST">>, <<"SHOULD">>, <<"MAY">>}

\* r.strong(w, node, entering); ast.GetFirstChild(node) is nil without children.
strong(s, n, entering) ==
    LET kids == GetChildren(s, n)
    IN  IF kids # <<>> /\ Kind(kids[1]) = "Text" /\ Is2119(nodes[kids[1]].Literal)
        THEN outOneOf(s, entering, "", "")
        ELSE outOneOf(s, entering, "<spanx style=\"strong\">", "</spanx>")

RECURSIVE citationLoop(_, _, _)
\* The loop of r.citation over node.Destination.
citationLoop(s, n, i) ==
    IF i > Len(nodes[n].Destination) THEN s
    ELSE IF nodes[n].Type[i] = "Suppressed" THEN citationLoop(s, n, i + 1)
    ELSE citationLoop(
             outs(outTag(s, "<xref",
                         <<"target=\"" \o nodes[n].Destination[i] \o "\"">>),
                  "</xref>"),
             n, i + 1)

\* r.citation(w, node, entering)
citation(s, n, entering) == IF ~entering THEN s ELSE citationLoop(s, n, 1)

\* ast.GetNextNode(n): the sibling after n, Nil for the last child.
GetNextNode(s, n) ==
    LET sibs == GetChildren(s, nodes[n].Parent)
        I == {i \in 1..Len(sibs) : sibs[i] = n}
    IN  IF I = {} \/ Max(I) = Len(sibs) THEN Nil ELSE sibs[Max(I) + 1]

\* r.listEnter(w, nodeData)
listEnter(s, n) ==
    LET l  == nodes[n]
        s1 == cr(IF l.IsFootnotesList
                 THEN cr(outs(s, "\n<div class=\"footnotes\">\n\n")) ELSE s)
        ordered == "Ordered" \in l.ListFlags
        start == IF ordered /\ l.Start > 0
                 THEN <<"start=\"" \o ToString(l.Start) \o "\"">> ELSE <<>>
        style == IF "Definition" \in l.ListFlags THEN "style=\"hanging\""
                 ELSE IF ordered THEN "style=\"numbers\"" ELSE "style=\"symbols\""
    IN  cr(outTag(s1, "<list", start \o BlockAttrs(n) \o <<style>>))

\* r.listExit(w, list)
listExit(s, n) ==
    LET s1 == outs(s, "</list>")
        p  == nodes[n].Parent
        s2 == IF p = Nil THEN s1
              ELSE IF Kind(p) = "ListItem"
              THEN IF GetNextNode(s1, n) # Nil THEN cr(s1) ELSE s1
              ELSE IF Kind(p) \in {"Document", "BlockQuote", "Aside"} THEN cr(s1)
              ELSE s1
    IN  IF nodes[n].IsFootnotesList THEN outs(s2, "\n</div>\n") ELSE s2

\* r.list(w, list, entering): the list is wrapped in the paragraph tags of an
\* empty &ast.Paragraph{} (no parent) unless its parent is a list item.
list(s, n, entering) ==
    LET p == nodes[n].Parent
        parentIsList == p # Nil /\ Kind(p) = "ListItem"
    IN  IF entering
        THEN listEnter(IF ~parentIsList THEN paragraphEnter(s, Nil, Nil) ELSE s, n)
        ELSE LET s1 == listExit(s, n)
             IN  IF ~parentIsList THEN paragraphExit(s1, Nil, Nil) ELSE s1

\* r.listItemEnter(w, listItem)
listItemEnter(s, n) ==
    IF ~nodes[n].RefLinkIsNil THEN s
    ELSE outs(s, IF "Term" \in nodes[n].ListFlags THEN "<t hangText=\""
                 ELSE IF "Definition" \in nodes[n].ListFlags THEN "<vspace />"
                 ELSE "<t>")

\* r.listItemExit(w, listItem)
listItemExit(s, n) ==
    cr(outs(s, IF "Term" \in nodes[n].ListFlags THEN "\">" ELSE "</t>"))

\* r.listItem(w, listItem, entering)
listItem(s, n, entering) ==
    IF entering THEN listItemEnter(s, n) ELSE listItemExit(s, n)

\* r.htmlSpan(w, span)
htmlSpan(s, n) ==
    IF "SkipHTML" \notin opts.Flags THEN outs(s, Join(nodes[n].Literal, "")) ELSE s

\* r.callout(w, callout)
callout(s, n) ==
    outs(outs(outs(s, "<spanx style=\"emph\">"), nodes[n].ID), "</spanx>")

\* r.crossReference(w, cr, entering)
crossReference(s, n, entering) ==
    IF entering
    THEN outTag(s, "<xref", <<"target=\"" \o Join(nodes[n].Destination, "") \o "\"">>)
    ELSE outs(s, "</xref>")

\* r.index(w, index)
index(s, n) ==
    LET s1 == outs(EscapeHTML(outs(outs(s, "<iref"), " item=\""), nodes[n].Item), "\"")
        s2 == IF nodes[n].Primary THEN outs(s1, " primary=\"true\"") ELSE s1
        s3 == IF Len(nodes[n].Subitem) # 0
              THEN outs(EscapeHTML(outs(s2, " subitem=\""), nodes[n].Subitem), "\"")
              ELSE s2
    IN  outs(s3, "></iref>")

\* r.link(w, link, entering): entering is not read.
link(s, n, entering) ==
    outs(EscapeHTML(outs(outs(s, "<eref"), " target=\""), nodes[n].Destination),
         "\"></iref>")

\* r.imageEnter(w, image)
imageEnter(s, n) ==
    outs(EscapeHTML(outs(s, "<img src=\""), nodes[n].Destination), "\" alt=\"")

\* r.imageExit(w, image)
imageExit(s, n) ==
    outs(IF ~nodes[n].TitleIsNil
         THEN EscapeHTML(outs(s, "\" name=\""), nodes[n].Title) ELSE s,
         "\" />")

\* r.image(w, node, entering)
image(s, n, entering) == IF entering THEN imageEnter(s, n) ELSE imageExit(s, n)

\* r.code(w, node)
code(s, n) ==
    outs(EscapeHTML(outs(s, "<spanx style=\"verb\">"), nodes[n].Literal), "</spanx>")

\* r.mathBlock(w, mathBlock)
mathBlock(s, n) ==
    LET s1 == outs(s, "<artwork type=\"math\">\n")
        s2 == IF ~opts.Comments.isNil THEN EscapeHTMLCallouts(s1, nodes[n].Literal)
              ELSE EscapeHTML(s1, nodes[n].Literal)
    IN  cr(outs(s2, "</artwork>"))

RECURSIVE RenderNode(_, _, _), Walk(_, _), WalkChildren(_, _, _, _),
          captionLoop(_, _, _, _, _), captionLoopKeeps(_, _, _, _, _)

\* ast.WalkFunc(n, RenderNode): the entering visit, then the children the node
\* has after that visit (the slice is taken once, its elements are read as the
\* loop reaches them), then the exiting visit of a container.  A visit that
\* returns Terminate ends the walk, after the exiting visit of the container
\* it entered.  ret is the status the walk returns; a panic leaves at once.
Walk(s, n) ==
    With(RenderNode(s, n, TRUE), LAMBDA s1 :
    IF s1.panicked THEN s1
    ELSE IF s1.ret = "Terminate"
    THEN IF IsContainer(n)
         THEN With(RenderNode(s1, n, FALSE), LAMBDA s4 :
                  IF s4.panicked THEN s4 ELSE [s4 EXCEPT !.ret = "Terminate"])
         ELSE s1
    ELSE With(IF IsContainer(n) /\ s1.ret # "SkipChildren"
              THEN WalkChildren(s1, n, 1, s1.children[n].len)
              ELSE [s1 EXCEPT !.ret = "GoToNext"], LAMBDA s2 :
         IF s2.panicked \/ s2.ret = "Terminate" \/ ~IsContainer(n) THEN s2
         ELSE With(RenderNode(s2, n, FALSE), LAMBDA s3 :
                  IF s3.panicked \/ s3.ret = "Terminate" THEN s3
                  ELSE [s3 EXCEPT !.ret = "GoToNext"])))
WalkChildren(s, n, i, len) ==
    IF i > len THEN [s EXCEPT !.ret = "GoToNext"]
    ELSE With(Walk(s, s.children[n].arr[i]), LAMBDA s1 :
             IF s1.panicked \/ s1.ret = "Terminate" THEN s1
             ELSE WalkChildren(s1, n, i + 1, len))

\* A loop that renders the caption and leaves it in the tree.
captionLoopKeeps(s, fig, i, len, stop) ==
    IF i > len THEN s
    ELSE LET c == s.children[fig].arr[i] IN
         IF Kind(c) = "Caption"
         THEN LET s1 == Walk(s, c)
              IN  IF stop THEN s1 ELSE captionLoopKeeps(s1, fig, i + 1, len, stop)
         ELSE captionLoopKeeps(s, fig, i + 1, len, stop)

\* The loop of r.captionFigure and of r.table over the figure's children
\* (range over the slice as it is when the loop starts): a caption is rendered
\* by a walk of its own and then removed from the tree.  The loop of r.table
\* stops at the first caption (stop).
captionLoop(s, fig, i, len, stop) ==
    IF i > len THEN s
    ELSE LET c == s.children[fig].arr[i] IN
         IF Kind(c) = "Caption"
         THEN With(Walk(s, c), LAMBDA s0 :
                  With(IF s0.panicked THEN s0 ELSE RemoveFromTree(s0, c), LAMBDA s1 :
                      IF stop THEN s1 ELSE captionLoop(s1, fig, i + 1, len, stop)))
         ELSE captionLoop(s, fig, i + 1, len, stop)

\* r.captionFigure(w, captionFigure, entering)
captionFigure(s, n, entering) ==
    IF \E i \in 1..s.children[n].len : Kind(s.children[n].arr[i]) = "Table" THEN s
    ELSE IF ~entering THEN outs(s, "</figure>")
    ELSE captionLoop(outs(outs(s, "<figure"), " title=\""),
                     n, 1, s.children[n].len, FALSE)

\* r.table(w, tab, entering)
table(s, n, entering) ==
    IF ~entering THEN outs(s, "</texttable>")
    ELSE LET attrs == BlockAttrs(n)
             s1 == outs(outs(s, "<texttable"),
                        IF Len(attrs) > 0 THEN " " \o Join(attrs, " ") ELSE "")
             p  == nodes[n].Parent
         IN  IF ~(p # Nil /\ Kind(p) = "CaptionFigure") THEN outs(s1, ">")
             ELSE captionLoop(outs(s1, " title=\""), p, 1, s1.children[p].len, TRUE)

\* return ast.GoToNext
next(s) == [s EXCEPT !.ret = "GoToNext"]

\* A default case that drops the node and goes on.
panicDrops(s) == [s EXCEPT !.ret = "GoToNext"]

\* panic(fmt.Sprintf("Unknown node %T", node))
panic(s) == [s EXCEPT !.panicked = TRUE]

\* An image that is skipped but whose children are walked.
skipChildrenNot(s) == [s EXCEPT !.ret = "GoToNext"]

\* return ast.SkipChildren
skipChildren(s) == [s EXCEPT !.ret = "SkipChildren"]

\* The switch of RenderNode on the node's type and the return that follows
\* it: ret is the status returned; the default case panics.
renderDefault(s, n, entering) ==
    LET k == Kind(n) IN
    CASE k = "Document" -> next(s)
      [] k = "Title" -> next([titleBlock(s, n) EXCEPT !.title = TRUE])
      [] k \in {"DocumentIndex", "IndexLetter", "IndexItem", "IndexSubItem",
                "IndexLink"} -> next(s)
      [] k = "Text" -> next(text(s, n))
      [] k = "Softbreak" -> next(cr(s))
      [] k = "Hardbreak" -> next(hardBreak(s))
      [] k = "Callout" -> next(callout(s, n))
      [] k = "Emph" -> next(outOneOf(s, entering, "<spanx style=\"emph\">", "</spanx>"))
      [] k = "Strong" -> next(strong(s, n, entering))
      [] k = "Del" -> next(outOneOf(s, entering, "<del>", "</del>"))
      [] k = "Citation" -> next(citation(s, n, entering))
      [] k = "DocumentMatter" -> next(IF entering THEN matter(s, n) ELSE s)
      [] k = "Heading" -> next(heading(s, n, entering))
      [] k = "Paragraph" -> next(paragraph(s, n, entering))
      [] k = "HTMLSpan" -> next(htmlSpan(s, n))
      [] k = "HTMLBlock" -> next(s)
      [] k = "List" -> next(list(s, n, entering))
      [] k = "ListItem" -> next(listItem(s, n, entering))
      [] k = "CodeBlock" -> next(codeBlock(s, n))
      [] k = "Caption" -> next(outOneOf(s, entering, "", ""))
      [] k = "CaptionFigure" -> next(captionFigure(s, n, entering))
      [] k = "Table" -> next(table(s, n, entering))
      [] k = "TableCell" -> next(tableCell(s, n, entering))
      [] k = "TableHeader" -> next(outOneOf(s, entering, "", ""))
      [] k = "TableBody" -> next(tableBody(s, n, entering))
      [] k = "TableRow" -> next(outOneOf(s, entering, "", ""))
      [] k = "TableFooter" -> next(outOneOf(s, entering, "", ""))
      [] k = "BlockQuote" ->
             next(outOneOfCr(s, entering,
                             tagWithAttributes("<blockquote", BlockAttrs(n)),
                             "</blockquote>"))
      [] k = "Aside" ->
             next(outOneOfCr(s, entering,
                             tagWithAttributes("<aside", BlockAttrs(n)), "</aside>"))
      [] k = "CrossReference" -> next(crossReference(s, n, entering))
      [] k = "Index" -> next(IF entering THEN index(s, n) ELSE s)
      [] k = "Link" -> next(link(s, n, entering))
      [] k = "Math" -> next(outOneOf(s, entering, "<spanx style=\"verb\">", "</spanx>"))
      [] k = "Image" ->
             IF "SkipImages" \in opts.Flags THEN skipChildren(s)
             ELSE next(image(s, n, entering))
      [] k = "Code" -> next(code(s, n))
      [] k = "MathBlock" -> next(mathBlock(s, n))
      [] OTHER -> panic(s)

\* r.opts.RenderNodeHook(w, node, entering): whether the hook says it handled
\* the visit, and what it does then (it writes out, if not empty).
didHandle(n, entering) ==
    /\ ~opts.RenderNodeHook.isNil
    /\ <<Kind(n), entering>> \in opts.RenderNodeHook.handles
RenderNodeHook(s) == outs(s, opts.RenderNodeHook.out)

\* A RenderNode that goes on to the switch after the hook handled the node.
RenderNodeFallsThrough(s, n, entering) ==
    IF s.panicked THEN s
    ELSE
    LET i  == Len(s.log) + 1
        s0 == [s EXCEPT !.at = n, !.ent = entering,
                        !.log = Append(@, [node |-> n, entering |-> entering,
                                           status |-> "panic"])]
    IN  With(renderDefault(IF didHandle(n, entering) THEN RenderNodeHook(s0) ELSE s0,
                           n, entering), LAMBDA s1 :
            IF s1.panicked THEN [s1 EXCEPT !.at = s.at, !.ent = s.ent]
            ELSE [s1 EXCEPT !.at = s.at, !.ent = s.ent, !.log[i].status = s1.ret])

\* r.RenderNode(w, node, entering): the hook first, then the switch.  The call
\* is recorded in log, with the status it returns once it has returned
\* ("panic" as long as it has not, and for ever if it panicked); at is the
\* node being rendered.  After a panic nothing runs any more.
RenderNode(s, n, entering) ==
    IF s.panicked THEN s
    ELSE
    LET i  == Len(s.log) + 1
        s0 == [s EXCEPT !.at = n, !.ent = entering,
                        !.log = Append(@, [node |-> n, entering |-> entering,
                                           status |-> "panic"])]
    IN  With(IF didHandle(n, entering)
             THEN [RenderNodeHook(s0) EXCEPT !.ret = opts.RenderNodeHook.status]
             ELSE renderDefault(s0, n, entering), LAMBDA s1 :
            IF s1.panicked THEN [s1 EXCEPT !.at = s.at, !.ent = s.ent]
            ELSE [s1 EXCEPT !.at = s.at, !.ent = s.ent, !.log[i].status = s1.ret])

\* r.writeDocumentHeader(w)
writeDocumentHeader(s) ==
    IF "XMLFragment" \in opts.Flags THEN s
    ELSE cr(outs(cr(outs(cr(outs(s,
            "<?xml version=\"1.0\" encoding=\"utf-8\"?>")),
            "<!-- name=\"GENERATOR\" content=\"github.com/mmarkdown/mmark markdown processor for Go\" -->")),
            "<!DOCTYPE rfc SYSTEM 'rfc2629.dtd' []>"))

\* r.RenderHeader(w, ast)
renderHeader(s) == IF "XMLFragment" \in opts.Flags THEN s ELSE writeDocumentHeader(s)

\* A footer that closes the region before the open section.
renderFooterRegionFirst(s) ==
    LET m  == s.documentMatter
        s1 == CASE m = "front" -> outs(outs(outs(s, "\n"), "</front>"), "\n")
                [] m = "main"  -> outs(outs(outs(s, "\n"), "</middle>"), "\n")
                [] m = "back"  -> outs(outs(outs(s, "\n"), "</back>"), "\n")
                [] OTHER -> s
        s2 == sectionClose(s1, Nil)
    IN  IF s2.title THEN outs(outs(s2, "\n"), "</rfc>") ELSE s2

\* A footer that closes no region.
renderFooterNoRegion(s) ==
    LET s0 == sectionClose(s, Nil)
    IN  IF s0.title THEN outs(outs(s0, "\n"), "</rfc>") ELSE s0

\* r.RenderFooter(w, ast).  The write of "\n</front>\n" is cut into the tokens
\* "\n", "</front>" and "\n"; likewise the others.
renderFooter(s) ==
    LET s0 == sectionClose(s, Nil)
        m  == s0.documentMatter
        s1 == CASE m = "front" -> outs(outs(outs(s0, "\n"), "</front>"), "\n")
                [] m = "main"  -> outs(outs(outs(s0, "\n"), "</middle>"), "\n")
                [] m = "back"  -> outs(outs(outs(s0, "\n"), "</back>"), "\n")
                [] OTHER -> s0
    IN  IF s1.title THEN outs(outs(s1, "\n"), "</rfc>") ELSE s1

(***************************************************************************)
(* The render pass: RenderHeader, the walk of the document, RenderFooter.  *)
(***************************************************************************)
Cur ==
    [documentMatter |-> documentMatter, section |-> section, title |-> title,
     headingIDs |-> headingIDs, w |-> w, children |-> children, log |-> log,
     at |-> Nil, ent |-> (pc = "header"), ret |-> "GoToNext", panicked |-> FALSE]

Set(s) ==
    /\ documentMatter' = s.documentMatter
    /\ section' = s.section
    /\ title' = s.title
    /\ headingIDs' = s.headingIDs
    /\ w' = s.w
    /\ children' = s.children
    /\ log' = s.log

\* NewRenderer(opts), and the document handed to the pass.
InitWith(o, doc) ==
    /\ IDTag = "anchor"
    /\ opts = o
    /\ nodes = Flat(doc, Root, Nil)
    /\ children = [n \in 1..Size(doc) |->
                     [arr |-> nodes[n].Children, len |-> Len(nodes[n].Children)]]
    /\ documentMatter = "none"
    /\ section = Nil
    /\ title = FALSE
    /\ headingIDs = <<>>
    /\ w = <<>>
    /\ log = <<>>
    /\ stack = <<>>
    /\ pc = "header"

\* The options of a plain render: CommonFlags, no hook, no comment markers.
DefaultOpts ==
    [Flags |-> {"SkipImages"}, Callout |-> "",
     RenderNodeHook |-> [isNil |-> TRUE, handles |-> {}, status |-> "GoToNext",
                         out |-> ""],
     Comments |-> [isNil |-> TRUE, markers |-> {}]]

\* The next visit of ast.WalkFunc(doc, RenderNode): the document first, then
\* the next child of the innermost container entered (read from its slice as
\* it was taken after the entering visit), then that container's exit.
NextVisit ==
    IF stack = <<>> THEN [node |-> Root, entering |-> TRUE]
    ELSE LET f == stack[Len(stack)] IN
         IF f.idx < f.len
         THEN [node |-> children[f.node].arr[f.idx + 1], entering |-> TRUE]
         ELSE [node |-> f.node, entering |-> FALSE]

\* One visit of the walk, of a node whose type is k.  A panic ends the pass
\* where it is; Terminate ends the walk (after the exiting visit of the
\* container entered), and RenderFooter follows.
Visit(k) ==
    /\ Kind(NextVisit.node) = k
    /\ LET v == NextVisit
           s == RenderNode(Cur, v.node, v.entering)
           moved == IF stack = <<>> THEN stack
                    ELSE [stack EXCEPT ![Len(stack)].idx = @ + 1]
       IN  /\ Set(s)
           /\ IF s.panicked THEN stack' = stack /\ pc' = "panic"
              ELSE IF v.entering /\ IsContainer(v.node)
              THEN /\ stack' = Append(moved,
                                 [node |-> v.node, idx |-> 0,
                                  len |-> IF s.ret = "GoToNext"
                                          THEN s.children[v.node].len ELSE 0,
                                  term |-> s.ret = "Terminate"])
                   /\ pc' = "walk"
              ELSE IF v.entering
              THEN IF s.ret = "Terminate" THEN stack' = <<>> /\ pc' = "footer"
                   ELSE stack' = moved /\ pc' = "walk"
              ELSE IF stack[Len(stack)].term \/ s.ret = "Terminate" \/ Len(stack) = 1
                   THEN stack' = <<>> /\ pc' = "footer"
                   ELSE stack' = SubSeq(stack, 1, Len(stack) - 1) /\ pc' = "walk"
    /\ UNCHANGED <<IDTag, opts, nodes>>

VisitDocument == pc = "walk" /\ Visit("Document")
VisitTitle == pc = "walk" /\ Visit("Title")
VisitText == pc = "walk" /\ Visit("Text")
VisitDocumentMatter == pc = "walk" /\ Visit("DocumentMatter")
VisitHeading == pc = "walk" /\ Visit("Heading")
VisitParagraph == pc = "walk" /\ Visit("Paragraph")
VisitCodeBlock == pc = "walk" /\ Visit("CodeBlock")
VisitCaption == pc = "walk" /\ Visit("Caption")
VisitCaptionFigure == pc = "walk" /\ Visit("CaptionFigure")
VisitTable == pc = "walk" /\ Visit("Table")
VisitTableCell == pc = "walk" /\ Visit("TableCell")
VisitTableHeader == pc = "walk" /\ Visit("TableHeader")
VisitTableBody == pc = "walk" /\ Visit("TableBody")
VisitTableRow == pc = "walk" /\ Visit("TableRow")

RenderHeader ==
    /\ pc = "header"
    /\ Set(renderHeader(Cur))
    /\ pc' = "walk"
    /\ UNCHANGED <<IDTag, opts, nodes, stack>>

RenderFooter ==
    /\ pc = "footer"
    /\ Set(renderFooter(Cur))
    /\ pc' = "done"
    /\ UNCHANGED <<IDTag, opts, nodes, stack>>

(***************************************************************************)
(* Spec: documents of matter markers, headings, paragraphs and a title.    *)
(***************************************************************************)
Init == \E blocks \in SeqsUpTo(SectionBlocks, MaxBlocks) :
            InitWith(DefaultOpts, DocumentT(blocks))

Next ==
    \/ RenderHeader
    \/ VisitDocument
    \/ VisitTitle
    \/ VisitText
    \/ VisitDocumentMatter
    \/ VisitHeading
    \/ VisitParagraph
    \/ RenderFooter

Spec == Init /\ [][Next]_vars

(***************************************************************************)
(* SpecIDs: documents of headings that carry identifiers.                  *)
(***************************************************************************)
IDBlocks ==
    {HeadingT(1, id, FALSE, <<>>) : id \in {"", "intro", "intro-2", "Overview"}}
    \cup {HeadingT(1, "intro", TRUE, <<"note">>),
          HeadingT(1, "intro", TRUE, <<"Abstract">>)}

InitIDs == \E blocks \in SeqsUpTo(IDBlocks, MaxHeadings) :
               InitWith(DefaultOpts, DocumentT(blocks))

NextIDs ==
    \/ RenderHeader
    \/ VisitDocument
    \/ VisitHeading
    \/ VisitText
    \/ RenderFooter

SpecIDs == InitIDs /\ [][NextIDs]_vars

(***************************************************************************)
(* SpecFig: documents of figures, with and without a caption, around a     *)
(* code block or a table, and of tables, code blocks and paragraphs.       *)
(***************************************************************************)
FigBlocks ==
    {FigureT(CodeBlockT, TRUE), FigureT(CodeBlockT, FALSE),
     FigureT(TableT, TRUE), FigureT(TableT, FALSE),
     TableT, CodeBlockT, ParagraphT}

InitFig == \E blocks \in SeqsUpTo(FigBlocks, MaxFigBlocks) :
               InitWith(DefaultOpts, DocumentT(blocks))

NextFig ==
    \/ RenderHeader
    \/ VisitDocument
    \/ VisitText
    \/ VisitParagraph
    \/ VisitCodeBlock
    \/ VisitCaption
    \/ VisitCaptionFigure
    \/ VisitTable
    \/ VisitTableCell
    \/ VisitTableHeader
    \/ VisitTableBody
    \/ VisitTableRow
    \/ RenderFooter

SpecFig == InitFig /\ [][NextFig]_vars

(***************************************************************************)
(* SpecFlags: every choice of the flags XMLFragment and SkipImages, over   *)
(* documents of a title, a matter marker, headings and paragraphs, one of  *)
(* them around an image.                                                   *)
(***************************************************************************)
VisitImage == pc = "walk" /\ Visit("Image")

FlagBlocks ==
    {TitleT, MatterT("front"), HeadingT(1, "", FALSE, <<>>), ParagraphT,
     ParaT(<<ImageT(FALSE)>>)}

InitFlags ==
    \E flags \in SUBSET {"XMLFragment", "SkipImages"} :
        \E blocks \in SeqsUpTo(FlagBlocks, MaxFlagBlocks) :
            InitWith([DefaultOpts EXCEPT !.Flags = flags], DocumentT(blocks))

NextFlags ==
    \/ RenderHeader
    \/ VisitDocument
    \/ VisitTitle
    \/ VisitDocumentMatter
    \/ VisitHeading
    \/ VisitParagraph
    \/ VisitImage
    \/ VisitText
    \/ RenderFooter

SpecFlags == InitFlags /\ [][NextFlags]_vars

(***************************************************************************)
(* SpecKinds: a document around one node of every type of the switch whose *)
(* handler is in renderer.go, blocks as they are and spans in a paragraph, *)
(* under every choice of the flags SkipImages and SkipHTML.                *)
(***************************************************************************)
SpanKinds ==
    {"Softbreak", "Hardbreak", "Callout", "Emph", "Strong", "Del", "Citation",
     "HTMLSpan", "CrossReference", "Index", "Math", "Code"}
BlockKinds ==
    {"HTMLBlock", "BlockQuote", "Aside", "DocumentIndex", "IndexLetter",
     "IndexItem", "IndexSubItem", "IndexLink"}

VisitSpan == pc = "walk" /\ \E k \in SpanKinds : Visit(k)
VisitBlock == pc = "walk" /\ \E k \in BlockKinds : Visit(k)
VisitLink == pc = "walk" /\ Visit("Link")
VisitList == pc = "walk" /\ Visit("List")
VisitListItem == pc = "walk" /\ Visit("ListItem")
VisitMathBlock == pc = "walk" /\ Visit("MathBlock")
VisitTableFooter == pc = "walk" /\ Visit("TableFooter")

Spans ==
    {TextT(<<"a", "<">>), KindT("Softbreak", <<>>), KindT("Hardbreak", <<>>),
     [Node0 EXCEPT !.kind = "Callout", !.ID = "1"],
     KindT("Emph", <<TextT(<<"e">>)>>),
     KindT("Strong", <<TextT(<<"s">>)>>), KindT("Strong", <<TextT(<<"MUST">>)>>),
     KindT("Del", <<TextT(<<"d">>)>>),
     [Node0 EXCEPT !.kind = "Citation", !.Destination = <<"RFC2119", "RFC8174">>,
                   !.Type = <<"Normative", "Suppressed">>],
     [Node0 EXCEPT !.kind = "HTMLSpan", !.Literal = <<"<!-- c -->">>],
     [Node0 EXCEPT !.kind = "CrossReference", !.Destination = <<"intro">>,
                   !.kids = <<TextT(<<"see">>)>>],
     [Node0 EXCEPT !.kind = "Index", !.Item = <<"item">>, !.Subitem = <<"sub", "&">>,
                   !.Primary = TRUE],
     LinkT,
     [Node0 EXCEPT !.kind = "Math", !.Literal = <<"x", "<", "y">>],
     ImageT(FALSE), ImageT(TRUE),
     [Node0 EXCEPT !.kind = "Code", !.Literal = <<"c", "&">>]}

KindBlocks ==
    {ParaT(<<span>>) : span \in Spans}
    \cup {TitleT, MatterT("front"), HeadingT(1, "intro", FALSE, <<>>),
          HeadingT(1, "", TRUE, <<"Abstract">>), CodeBlockT, MathBlockT,
          [TableT EXCEPT !.kids = @ \o <<KindT("TableFooter", <<TableRowT(FALSE)>>)>>],
          FigureT(CodeBlockT, TRUE), FigureT(TableT, TRUE),
          KindT("HTMLBlock", <<>>),
          KindT("BlockQuote", <<ParagraphT>>), KindT("Aside", <<ParagraphT>>),
          ListT({}, 0, <<ListItemT({}, <<ParagraphT, ParagraphT>>)>>),
          ListT({"Ordered"}, 3,
                <<ListItemT({"Ordered"}, <<ParagraphT,
                      ListT({}, 0, <<ListItemT({}, <<ParagraphT>>)>>)>>)>>),
          ListT({"Definition"}, 0,
                <<ListItemT({"Definition", "Term"}, <<TextT(<<"term">>)>>),
                  ListItemT({"Definition"}, <<ParagraphT>>)>>),
          KindT("DocumentIndex",
                <<KindT("IndexLetter",
                    <<KindT("IndexItem",
                        <<KindT("IndexSubItem", <<KindT("IndexLink", <<>>)>>)>>)>>)>>)}

InitKinds ==
    \E flags \in SUBSET {"SkipImages", "SkipHTML"} :
        \E blocks \in SeqsUpTo(KindBlocks, MaxKindBlocks) :
            InitWith([DefaultOpts EXCEPT !.Flags = flags], DocumentT(blocks))

NextKinds ==
    \/ RenderHeader
    \/ VisitDocument
    \/ VisitTitle
    \/ VisitDocumentMatter
    \/ VisitHeading
    \/ VisitParagraph
    \/ VisitText
    \/ VisitSpan
    \/ VisitLink
    \/ VisitImage
    \/ VisitBlock
    \/ VisitList
    \/ VisitListItem
    \/ VisitCodeBlock
    \/ VisitMathBlock
    \/ VisitCaption
    \/ VisitCaptionFigure
    \/ VisitTable
    \/ VisitTableCell
    \/ VisitTableHeader
    \/ VisitTableBody
    \/ VisitTableRow
    \/ VisitTableFooter
    \/ RenderFooter

SpecKinds == InitKinds /\ [][NextKinds]_vars

(***************************************************************************)
(* SpecHook: renders without a hook and with a hook that handles the       *)
(* visits of some types (both visits, or the entering one only), writes    *)
(* "<hook/>" and returns one of the three statuses, over documents that    *)
(* hold nodes of types the switch does not know: a HorizontalRule (a leaf) *)
(* and a Subscript (a container).                                          *)
(***************************************************************************)
UnknownKinds == {"HorizontalRule", "Subscript"}
VisitUnknown == pc = "walk" /\ \E k \in UnknownKinds : Visit(k)

HookBlocks ==
    {TitleT, MatterT("front"), HeadingT(1, "intro", FALSE, <<>>), ParagraphT,
     KindT("HorizontalRule", <<>>),
     ParaT(<<KindT("Subscript", <<TextT(<<"2">>)>>)>>)}

HookKinds == {"Title", "DocumentMatter", "Heading", "Paragraph"} \cup UnknownKinds
Handles ==
    {{}, HookKinds \X BOOLEAN}
    \cup {{<<k, TRUE>>, <<k, FALSE>>} : k \in HookKinds}
    \cup {{<<k, TRUE>>} : k \in HookKinds}
Hooks ==
    {DefaultOpts.RenderNodeHook}
    \cup {[isNil |-> FALSE, handles |-> h, status |-> st, out |-> "<hook/>"] :
             h \in Handles, st \in {"GoToNext", "SkipChildren", "Terminate"}}

InitHook ==
    \E hook \in Hooks : \E blocks \in SeqsUpTo(HookBlocks, MaxHookBlocks) :
        InitWith([DefaultOpts EXCEPT !.RenderNodeHook = hook], DocumentT(blocks))

NextHook ==
    \/ RenderHeader
    \/ VisitDocument
    \/ VisitTitle
    \/ VisitDocumentMatter
    \/ VisitHeading
    \/ VisitParagraph
    \/ VisitText
    \/ VisitUnknown
    \/ RenderFooter

SpecHook == InitHook /\ [][NextHook]_vars

(***************************************************************************)
(* SpecCode: code blocks and math blocks whose literal holds characters to *)
(* escape and a comment followed by a callout, rendered with Comments nil, *)
(* empty and holding the marker "//", with and without a callout prefix.   *)
(***************************************************************************)
CalloutLiteral == <<"x", "<", "1", " ", "//", "co:", "1", "&">>

CodeBlocks ==
    {CodeBlockT, [CodeBlockT EXCEPT !.Literal = CalloutLiteral],
     MathBlockT, [MathBlockT EXCEPT !.Literal = CalloutLiteral],
     FigureT([CodeBlockT EXCEPT !.Literal = CalloutLiteral], TRUE),
     ParagraphT}

InitCode ==
    \E comments \in {[isNil |-> TRUE, markers |-> {}], [isNil |-> FALSE, markers |-> {}],
                     [isNil |-> FALSE, markers |-> {"//"}]} :
        \E prefix \in {"", "co:"} :
            \E blocks \in SeqsUpTo(CodeBlocks, MaxCodeBlocks) :
                InitWith([DefaultOpts EXCEPT !.Comments = comments, !.Callout = prefix],
                         DocumentT(blocks))

NextCode ==
    \/ RenderHeader
    \/ VisitDocument
    \/ VisitCodeBlock
    \/ VisitMathBlock
    \/ VisitCaptionFigure
    \/ VisitParagraph
    \/ VisitText
    \/ RenderFooter

SpecCode == InitCode /\ [][NextCode]_vars

(***************************************************************************)
(* SpecMix: headings with and without an identifier, plain, abstract and   *)
(* special, among matter markers, a title and paragraphs.                  *)
(***************************************************************************)
MixBlocks ==
    {HeadingT(1, "intro", FALSE, <<>>), HeadingT(2, "", FALSE, <<>>),
     HeadingT(1, "intro", TRUE, <<"Abstract">>), HeadingT(1, "intro", TRUE, <<"note">>),
     MatterT("main"), TitleT, ParagraphT}

InitMix == \E blocks \in SeqsUpTo(MixBlocks, MaxMixBlocks) :
               InitWith(DefaultOpts, DocumentT(blocks))

NextMix ==
    \/ RenderHeader
    \/ VisitDocument
    \/ VisitTitle
    \/ VisitDocumentMatter
    \/ VisitHeading
    \/ VisitParagraph
    \/ VisitText
    \/ RenderFooter

SpecMix == InitMix /\ [][NextMix]_vars

(***************************************************************************)
(* SpecList: a paragraph and one list.  The list is a bullet list or an    *)
(* ordered one, whose items hold paragraphs and lists down to two levels,  *)
(* or the list of the footnotes, whose items carry a RefLink, or a         *)
(* definition list of terms and definitions.                               *)
(***************************************************************************)
ItemT(kids) == ListItemT({}, kids)
PlainItems ==
    {ItemT(<<ParagraphT>>),
     ItemT(<<ParagraphT, ParagraphT>>),
     ItemT(<<ParagraphT, ListT({}, 0, <<ItemT(<<ParagraphT>>)>>)>>),
     ItemT(<<ListT({"Ordered"}, 0,
                   <<ItemT(<<ParagraphT, ListT({}, 0, <<ItemT(<<ParagraphT>>)>>)>>)>>),
             ParagraphT>>)}
FootItems == {[ItemT(<<ParagraphT>>) EXCEPT !.RefLinkIsNil = FALSE]}
DefItems ==
    {ListItemT({"Definition", "Term"}, <<TextT(<<"term">>)>>),
     ListItemT({"Definition"}, <<ParagraphT>>)}
ItemsOf(S) == SeqsUpTo(S, MaxItems) \ {<<>>}
Lists ==
    {ListT({}, 0, items) : items \in ItemsOf(PlainItems)}
    \cup {ListT({"Ordered"}, 3, items) : items \in ItemsOf(PlainItems)}
    \cup {[ListT({"Ordered"}, 0, items) EXCEPT !.IsFootnotesList = TRUE] :
             items \in ItemsOf(FootItems)}
    \cup {ListT({"Definition"}, 0, items) : items \in ItemsOf(DefItems)}

InitList == \E l \in Lists : InitWith(DefaultOpts, DocumentT(<<ParagraphT, l>>))

NextList ==
    \/ RenderHeader
    \/ VisitDocument
    \/ VisitParagraph
    \/ VisitList
    \/ VisitListItem
    \/ VisitText
    \/ RenderFooter

SpecList == InitList /\ [][NextList]_vars

(***************************************************************************)
(* SpecNew: the process before the renderer is made.  html.IDTag has the   *)
(* value the package html gives it, or one other code of the process set;  *)
(* NewRenderer makes the renderer, and the pass follows.                   *)
(***************************************************************************)
IDTags == {"id", "name"}

InitNew ==
    \E tag \in IDTags : \E blocks \in SeqsUpTo(MixBlocks, MaxNewBlocks) :
        LET doc == DocumentT(blocks) IN
        /\ IDTag = tag
        /\ opts = DefaultOpts
        /\ nodes = Flat(doc, Root, Nil)
        /\ children = [n \in 1..Size(doc) |->
                         [arr |-> nodes[n].Children, len |-> Len(nodes[n].Children)]]
        /\ documentMatter = "none"
        /\ section = Nil
        /\ title = FALSE
        /\ headingIDs = <<>>
        /\ w = <<>>
        /\ log = <<>>
        /\ stack = <<>>
        /\ pc = "new"

\* NewRenderer(opts)
NewRenderer ==
    /\ pc = "new"
    /\ IDTag' = "anchor"
    /\ headingIDs' = <<>>
    /\ pc' = "header"
    /\ UNCHANGED <<opts, nodes, children, documentMatter, section, title, w, log,
                   stack>>

NextNew ==
    \/ NewRenderer
    \/ RenderHeader
    \/ VisitDocument
    \/ VisitTitle
    \/ VisitDocumentMatter
    \/ VisitHeading
    \/ VisitParagraph
    \/ VisitText
    \/ RenderFooter

SpecNew == InitNew /\ [][NextNew]_vars

(***************************************************************************)
(* What the claims read off the output and the log.                        *)
(***************************************************************************)
Strs(seq) == [i \in 1..Len(seq) |-> seq[i].t]
Count(seq, str) == Cardinality({i \in 1..Len(seq) : seq[i].t = str})

\* The Matter of the DocumentMatter nodes entered so far, in order.
IsMatterVisit(c) == Kind(c.node) = "DocumentMatter" /\ c.entering
MattersVisited ==
    LET v == SelectSeq(log, IsMatterVisit)
    IN  [i \in 1..Len(v) |-> nodes[v[i].node].Matter]

\* The sections open after a run of tokens, outermost first: "<section" opens
\* one, "</section>" closes the innermost.
RECURSIVE OpenSections(_)
OpenSections(seq) ==
    IF seq = <<>> THEN <<>>
    ELSE LET before == OpenSections(SubSeq(seq, 1, Len(seq) - 1))
             tok == seq[Len(seq)]
         IN  CASE tok.t = "<section" -> Append(before, tok.n)
               [] tok.t = "</section>" /\ before # <<>> ->
                      SubSeq(before, 1, Len(before) - 1)
               [] OTHER -> before

\* C1: between two successive "<section" in the output there is exactly one
\* "</section>", and there is none before the first: a heading closes one
\* section if one is open and never more, whatever the levels are.
C1_OneClosePerHeading ==
    \A i \in 1..Len(w) :
        w[i].t = "<section" =>
            LET prev == {j \in 1..(i - 1) : w[j].t = "<section"}
                from == IF prev = {} THEN 0 ELSE Max(prev)
                closes == {j \in (from + 1)..(i - 1) : w[j].t = "</section>"}
            IN  Cardinality(closes) = IF prev = {} THEN 0 ELSE 1

\* Three sections were opened, of levels 1, 2 and 1 in this order.
C1_Witness ==
    \E i, j, k \in 1..Len(w) :
        /\ i < j /\ j < k
        /\ w[i].t = "<section" /\ w[j].t = "<section" /\ w[k].t = "<section"
        /\ nodes[w[i].n].Level = 1 /\ nodes[w[j].n].Level = 2
        /\ nodes[w[k].n].Level = 1

\* Whether, from token i on, every "<section" is written while the innermost
\* open section (the last of open) is of a lower level: the levels of the open
\* sections then strictly increase from the outermost to the innermost.
RECURSIVE OpensDeeper(_, _)
OpensDeeper(i, open) ==
    IF i > Len(w) THEN TRUE
    ELSE CASE w[i].t = "<section" ->
                /\ open # <<>> =>
                      nodes[open[Len(open)]].Level < nodes[w[i].n].Level
                /\ OpensDeeper(i + 1, Append(open, w[i].n))
           [] w[i].t = "</section>" /\ open # <<>> ->
                OpensDeeper(i + 1, SubSeq(open, 1, Len(open) - 1))
           [] OTHER -> OpensDeeper(i + 1, open)

\* C2: all through the output, the levels of the open sections strictly
\* increase from the outermost to the innermost: no "<section" is written
\* while a section of the same or a deeper level is open.
C2_OpenSectionsIncrease == OpensDeeper(1, <<>>)

\* A section was opened while a section of the same or a deeper level was the
\* last one opened.
C2_Witness ==
    \E i, j \in 1..Len(w) :
        /\ i < j
        /\ w[i].t = "<section" /\ w[j].t = "<section"
        /\ nodes[w[j].n].Level <= nodes[w[i].n].Level
        /\ OpenSections(w) = <<w[j].n>>

IsPrefix(a, b) == Len(a) <= Len(b) /\ a = SubSeq(b, 1, Len(a))
ByDocumentMatter(tok) == tok.n # Nil /\ Kind(tok.n) = "DocumentMatter"
MatterOf(tok) == IF ByDocumentMatter(tok) THEN nodes[tok.n].Matter ELSE "none"
RegionTags == {"<front>", "</front>", "<middle>", "</middle>", "<back>", "</back>"}

\* C3: after a pass whose DocumentMatter nodes were front, main, back in this
\* order, each of the six region tags is in the output exactly once;
\* "</front>" was written on entering main, "</middle>" on entering back,
\* "</back>" by RenderFooter; no exiting visit of a DocumentMatter node wrote
\* anything.
C3_MatterTagsOnce ==
    (pc = "done" /\ MattersVisited = <<"front", "main", "back">>) =>
        /\ \A tag \in RegionTags : Count(w, tag) = 1
        /\ \A i \in 1..Len(w) :
              /\ w[i].t = "<front>" => MatterOf(w[i]) = "front" /\ w[i].e
              /\ w[i].t \in {"</front>", "<middle>"} => MatterOf(w[i]) = "main" /\ w[i].e
              /\ w[i].t \in {"</middle>", "<back>"} => MatterOf(w[i]) = "back" /\ w[i].e
              /\ w[i].t = "</back>" => w[i].n = Nil /\ ~w[i].e
              /\ ByDocumentMatter(w[i]) => w[i].e

\* The pass is over, its matter nodes were front, main, back, and another
\* node wrote between them.
C3_Witness ==
    /\ pc = "done"
    /\ MattersVisited = <<"front", "main", "back">>
    /\ \E i, j, k \in 1..Len(w) :
          /\ i < j /\ j < k
          /\ w[i].t = "<front>" /\ w[k].t = "<back>"
          /\ w[j].n # Nil /\ Kind(w[j].n) # "DocumentMatter"

\* The tags of one region alternate in the output, open first.
RECURSIVE Alternates(_, _, _, _)
Alternates(seq, open, close, isOpen) ==
    IF seq = <<>> THEN TRUE
    ELSE CASE Head(seq).t = open -> ~isOpen /\ Alternates(Tail(seq), open, close, TRUE)
           [] Head(seq).t = close -> isOpen /\ Alternates(Tail(seq), open, close, FALSE)
           [] OTHER -> Alternates(Tail(seq), open, close, isOpen)
Closed(seq, open, close) == Count(seq, open) = Count(seq, close)
RegionsBracket ==
    /\ Alternates(w, "<front>", "</front>", FALSE) /\ Closed(w, "<front>", "</front>")
    /\ Alternates(w, "<middle>", "</middle>", FALSE) /\ Closed(w, "<middle>", "</middle>")
    /\ Alternates(w, "<back>", "</back>", FALSE) /\ Closed(w, "<back>", "</back>")

\* C4, as claimed: after any pass, every closing region tag in the output
\* follows its not yet closed opening tag, and every region that was opened
\* is closed once.
C4_Claimed == pc = "done" => RegionsBracket

\* C4, amended: the region tags bracket after the passes whose DocumentMatter
\* nodes are front, main, back in this order or a start of it, and after no
\* other pass.
C4_RegionsBracket ==
    pc = "done" =>
        (RegionsBracket <=> IsPrefix(MattersVisited, <<"front", "main", "back">>))

\* The pass is over; it entered front, then main, and a section in main.
C4_Witness ==
    /\ pc = "done"
    /\ MattersVisited = <<"front", "main">>
    /\ Count(w, "<section") = 1

\* The element a heading opened and that is open after a run of tokens, or
\* Nil: the tokens of the closing tags are the ones of sectionClose.
RECURSIVE OpenElement(_)
OpenElement(seq) ==
    IF seq = <<>> THEN Nil
    ELSE LET tok == seq[Len(seq)] IN
         CASE tok.t \in {"<section", "<note", "<abstract>"} -> tok.n
           [] tok.t \in {"</section>", "</note>", "</abstract>"} -> Nil
           [] OTHER -> OpenElement(SubSeq(seq, 1, Len(seq) - 1))
ClosingTag(n) ==
    IF ~nodes[n].IsSpecial THEN "</section>"
    ELSE IF IsAbstract(nodes[n].Literal) THEN "</abstract>" ELSE "</note>"
TitleVisited == \E i \in 1..Len(log) : Kind(log[i].node) = "Title"
LastMatter ==
    IF MattersVisited = <<>> THEN "none" ELSE MattersVisited[Len(MattersVisited)]
ByFooter(tok) == tok.n = Nil /\ ~tok.e
NotByFooter(tok) == ~ByFooter(tok)
NotNewline(tok) == tok.t # "\n"

\* C5: what RenderFooter writes is, in this order, the closing tag of the
\* element that was open when the walk ended (if any), the closing tag of the
\* region of the last DocumentMatter node entered (none if there was none),
\* and "</rfc>" exactly if a Title node was visited.
C5_FooterOrder ==
    pc = "done" =>
        LET body == SelectSeq(w, NotByFooter)
            open == OpenElement(body)
        IN  Strs(SelectSeq(SelectSeq(w, ByFooter), NotNewline)) =
                (IF open = Nil THEN <<>> ELSE <<ClosingTag(open)>>)
                \o (CASE LastMatter = "front" -> <<"</front>">>
                      [] LastMatter = "main" -> <<"</middle>">>
                      [] LastMatter = "back" -> <<"</back>">>
                      [] OTHER -> <<>>)
                \o (IF TitleVisited THEN <<"</rfc>">> ELSE <<>>)

\* RenderFooter closed a section opened before a paragraph, then the middle,
\* then the document.
C5_Witness ==
    /\ pc = "done"
    /\ Strs(SelectSeq(SelectSeq(w, ByFooter), NotNewline))
          = <<"</section>", "</middle>", "</rfc>">>
    /\ \E i, j \in 1..Len(w) : i < j /\ w[i].t = "<section" /\ w[j].t = "<t>"

Rank(m) == CASE m = "none" -> 0 [] m = "front" -> 1 [] m = "main" -> 2 [] m = "back" -> 3

\* C10, as claimed: documentMatter is one of none, front, main, back and never
\* goes back in the order none, front, main, back.
C10_Claimed ==
    [][/\ documentMatter' \in {"none", "front", "main", "back"}
       /\ Rank(documentMatter') >= Rank(documentMatter)]_vars

\* C10, amended: documentMatter is one of none, front, main, back and is the
\* Matter of the last DocumentMatter node entered (none before the first), so
\* that it goes through the regions in the order in which the document names
\* them.
C10_RegionIsLastEntered ==
    /\ documentMatter \in {"none", "front", "main", "back"}
    /\ documentMatter = LastMatter

\* Two DocumentMatter nodes were entered, so that a region was left.
C10_Witness ==
    /\ Len(MattersVisited) >= 2
    /\ MattersVisited[1] # MattersVisited[2]
    /\ documentMatter = MattersVisited[Len(MattersVisited)]

\* The places of the output that hold the value of an anchor attribute, and
\* the identifier of the heading that wrote it (the candidate).
AnchorAt == {i \in 2..Len(w) : w[i - 1].t = " anchor=\""}
Candidate(i) == nodes[w[i].n].HeadingID
AnchorsDistinct == \A i, j \in AnchorAt : i # j => w[i].t # w[j].t
FirstUnchanged ==
    \A i \in AnchorAt :
        (\A j \in AnchorAt : j < i => Candidate(j) # Candidate(i)) =>
            w[i].t = Candidate(i)

Ids == 1..Len(nodes)
Figures == {f \in Ids : Kind(f) = "CaptionFigure"}
KidsOfKind(n, k) == {c \in Ids : nodes[c].Parent = n /\ Kind(c) = k}
RECURSIVE Subtree(_)
Subtree(n) ==
    {n} \cup UNION {Subtree(nodes[n].Children[i]) : i \in 1..Len(nodes[n].Children)}
Calls(n, entering) ==
    Cardinality({i \in 1..Len(log) : log[i].node = n /\ log[i].entering = entering})
WrittenBy(S) == SelectSeq(w, LAMBDA tok : tok.n \in S)

\* C7, as claimed: the caption of a figure and every node below it are passed
\* to RenderNode once in each direction they are visited in, and not again:
\* never twice in one direction, and once when the pass is over.
C7_Claimed ==
    \A f \in Figures : \A c \in KidsOfKind(f, "Caption") : \A x \in Subtree(c) :
        /\ Calls(x, TRUE) <= 1
        /\ Calls(x, FALSE) <= 1
        /\ pc = "done" =>
              /\ Calls(x, TRUE) = 1
              /\ Calls(x, FALSE) = IF IsContainer(x) THEN 1 ELSE 0

\* C8: a figure made of a table and a caption writes nothing, neither on
\* entering nor on leaving; once its table is entered, the table has written
\* "<texttable" and ` title="` once, the caption's escaped text and the `">`
\* that ends the attribute come right after them, and the caption has
\* written nothing else anywhere.
C8_TableFigure ==
    \A f \in Figures :
        \A tab \in KidsOfKind(f, "Table") : \A c \in KidsOfKind(f, "Caption") :
            /\ WrittenBy({f}) = <<>>
            /\ Strs(WrittenBy(Subtree(c))) \in {<<>>, <<"cap&amp;", "\">">>}
            /\ Calls(tab, TRUE) >= 1 =>
                  \E i \in 1..Len(w) :
                      /\ i + 3 <= Len(w)
                      /\ w[i] = [t |-> "<texttable", n |-> tab, e |-> TRUE]
                      /\ w[i + 1] = [t |-> " title=\"", n |-> tab, e |-> TRUE]
                      /\ w[i + 2].t = "cap&amp;" /\ w[i + 2].n \in Subtree(c)
                      /\ w[i + 3].t = "\">" /\ w[i + 3].n \in Subtree(c)
                      /\ Strs(WrittenBy({tab})) \in
                            {<<"<texttable", " title=\"">>,
                             <<"<texttable", " title=\"", "</texttable>">>}

\* The pass is over and its document held a figure made of a table and a
\* caption.
C8_Witness ==
    /\ pc = "done"
    /\ \E f \in Figures :
          /\ KidsOfKind(f, "Table") # {}
          /\ KidsOfKind(f, "Caption") # {}
          /\ Calls(f, FALSE) = 1

\* C9, as claimed: a figure without a caption, and the table of such a
\* figure, write no ` title="`.
C9_Claimed ==
    \A f \in Figures :
        KidsOfKind(f, "Caption") = {} =>
            Count(WrittenBy({f} \cup KidsOfKind(f, "Table")), " title=\"") = 0

XMLDeclaration == "<?xml version=\"1.0\" encoding=\"utf-8\"?>"
GeneratorComment ==
    "<!-- name=\"GENERATOR\" content=\"github.com/mmarkdown/mmark markdown processor for Go\" -->"
DocType == "<!DOCTYPE rfc SYSTEM 'rfc2629.dtd' []>"
ByHeader(tok) == tok.n = Nil /\ tok.e
TitleRendered == \E i \in 1..Len(w) : w[i].n # Nil /\ Kind(w[i].n) = "Title"

\* C11, as claimed: a pass with XMLFragment writes neither the XML
\* declaration, the generator comment, the DOCTYPE nor "</rfc>", also when a
\* Title node was visited; a pass without it starts with the declaration, the
\* generator comment and the DOCTYPE in this order, and "</rfc>" is written,
\* last, exactly if a title block was rendered.
C11_Claimed ==
    pc = "done" =>
        IF "XMLFragment" \in opts.Flags
        THEN \A i \in 1..Len(w) :
                 w[i].t \notin {XMLDeclaration, GeneratorComment, DocType, "</rfc>"}
        ELSE /\ Strs(SelectSeq(SelectSeq(w, ByHeader), NotNewline))
                   = <<XMLDeclaration, GeneratorComment, DocType>>
             /\ IsPrefix(SelectSeq(w, ByHeader), w)
             /\ Count(w, "</rfc>") = IF TitleRendered THEN 1 ELSE 0
             /\ TitleRendered => w[Len(w)].t = "</rfc>"

RenderState == <<documentMatter, section, title, headingIDs>>
Images == {n \in Ids : Kind(n) = "Image"}

\* C13: with SkipImages, every call of RenderNode on an Image, entering or
\* exiting, returns SkipChildren, writes nothing and leaves the render state
\* and the tree as they are, and no node below the image is visited; every
\* other call (there is no hook), and every call on an Image without
\* SkipImages, returns GoToNext.
C13_SkipImages ==
    /\ [](\A i \in 1..Len(log) :
             IF Kind(log[i].node) = "Image" /\ "SkipImages" \in opts.Flags
             THEN log[i].status = "SkipChildren"
             ELSE log[i].status = "GoToNext")
    /\ []("SkipImages" \in opts.Flags =>
             \A n \in Images :
                 /\ WrittenBy(Subtree(n)) = <<>>
                 /\ \A c \in Subtree(n) \ {n} : Calls(c, TRUE) = 0)
    /\ [][(pc = "walk" /\ Kind(NextVisit.node) = "Image"
              /\ "SkipImages" \in opts.Flags)
            => UNCHANGED <<RenderState, w, children>>]_vars

\* The pass is over; with SkipImages it visited an image entering and exiting,
\* and the paragraph around the image wrote its tags.
C13_Witness ==
    /\ pc = "done"
    /\ "SkipImages" \in opts.Flags
    /\ \E n \in Images :
          /\ Calls(n, TRUE) = 1 /\ Calls(n, FALSE) = 1
          /\ Strs(WrittenBy({nodes[n].Parent})) = <<"<t>", "</t>", "\n">>

\* What node n wrote in its entering (e) or exiting (~e) visits, newlines left
\* out.
WrittenIn(n, e) ==
    Strs(SelectSeq(w, LAMBDA tok : tok.n = n /\ tok.e = e /\ tok.t # "\n"))

\* C16, as claimed: no container that was visited entering and exiting wrote
\* the same markup, other than none, in both visits.
C16_Claimed ==
    \A n \in Ids :
        (IsContainer(n) /\ Calls(n, TRUE) >= 1 /\ Calls(n, FALSE) >= 1) =>
            (WrittenIn(n, TRUE) = <<>> \/ WrittenIn(n, TRUE) # WrittenIn(n, FALSE))

\* Whether the hook reports that it handled the visit c.
Handled(c) ==
    /\ ~opts.RenderNodeHook.isNil
    /\ <<Kind(c.node), c.entering>> \in opts.RenderNodeHook.handles
Unrecognised(n) == Kind(n) \in UnknownKinds
LastCall == log[Len(log)]

\* C12: a call of RenderNode on a node of a type the switch does not know,
\* entering or exiting, that the hook did not handle never returns: it
\* panics, the pass ends there, and it is the last call made; and a pass
\* panics for no other reason.
C12_UnknownPanics ==
    /\ \A i \in 1..Len(log) :
          (Unrecognised(log[i].node) /\ ~Handled(log[i])) =>
              /\ log[i].status = "panic"
              /\ i = Len(log)
              /\ pc = "panic"
    /\ pc = "panic" =>
          /\ log # <<>>
          /\ Unrecognised(LastCall.node) /\ ~Handled(LastCall)
          /\ LastCall.status = "panic"
    /\ \A i \in 1..Len(w) : w[i].n # Nil => ~Unrecognised(w[i].n) \/ w[i].t = "<hook/>"

\* The pass panicked in the exiting visit of a Subscript whose entering visit
\* the hook had handled, after the text below it was written.
C12_Witness ==
    /\ pc = "panic"
    /\ Kind(LastCall.node) = "Subscript" /\ ~LastCall.entering
    /\ \E i \in 1..Len(w) : w[i].t = "2"

\* C14: a visit that the hook handles returns the hook's status, writes what
\* the hook writes and nothing else, leaves documentMatter, section, title,
\* headingIDs and the tree as they are, and does not panic, whatever the
\* node's type is; a visit that the hook does not handle leaves what the
\* switch alone leaves.
C14_HookReplaces ==
    [][pc = "walk" =>
         LET v  == NextVisit
             c  == [node |-> v.node, entering |-> v.entering, status |-> "panic"]
             s0 == [Cur EXCEPT !.at = v.node, !.ent = v.entering,
                               !.log = Append(@, c)]
         IN  IF Handled(v)
             THEN /\ UNCHANGED <<RenderState, children>>
                  /\ w' = Append(w, [t |-> "<hook/>", n |-> v.node, e |-> v.entering])
                  /\ log' = Append(log, [c EXCEPT !.status = opts.RenderNodeHook.status])
                  /\ pc' # "panic"
             ELSE LET d == renderDefault(s0, v.node, v.entering)
                  IN  /\ <<documentMatter', section', title', headingIDs'>>
                            = <<d.documentMatter, d.section, d.title, d.headingIDs>>
                      /\ w' = d.w
                      /\ children' = d.children
                      /\ pc' = "panic" <=> d.panicked]_vars

\* The pass is over: the hook handled a Title, a Heading and a HorizontalRule
\* and returned SkipChildren; the title flag is not set, no section is open
\* and no identifier was recorded.
C14_Witness ==
    /\ pc = "done"
    /\ opts.RenderNodeHook.status = "SkipChildren"
    /\ \E i, j \in 1..Len(log) :
          /\ Kind(log[i].node) = "Heading" /\ Handled(log[i])
          /\ Kind(log[j].node) = "HorizontalRule" /\ Handled(log[j])
          /\ log[j].status = "SkipChildren"
    /\ section = Nil /\ headingIDs = <<>>
    /\ Count(w, "<hook/>") >= 3

\* The literal with "&", "<", ">" and the double quote escaped, as one string.
Escaped(lit) == Join([i \in 1..Len(lit) |-> EscapeChar(lit[i])], "")
\* All that node n wrote in its visits in direction e, as one string.
TextIn(n, e) == Join(Strs(SelectSeq(w, LAMBDA tok : tok.n = n /\ tok.e = e)), "")
Literals == {n \in Ids : Kind(n) \in {"CodeBlock", "MathBlock"}}
PlainText(n) ==
    IF Kind(n) = "MathBlock"
    THEN "<artwork type=\"math\">\n" \o Escaped(nodes[n].Literal) \o "</artwork>\n"
    ELSE IF Kind(nodes[n].Parent) = "CaptionFigure"
    THEN "\n<artwork>" \o Escaped(nodes[n].Literal) \o "</artwork>\n"
    ELSE "\n<figure><artwork>" \o Escaped(nodes[n].Literal) \o "</artwork></figure>\n"

\* C15: with no comment marker (Comments nil or empty), what a CodeBlock or a
\* MathBlock writes is its tags around its literal escaped and nothing else,
\* whatever the callout prefix is; a callout reference is written only when
\* Comments holds a marker.
C15_PlainEscaping ==
    \A n \in Literals :
        /\ (opts.Comments.markers = {} /\ Calls(n, TRUE) >= 1) =>
               TextIn(n, TRUE) = PlainText(n)
        /\ Count(WrittenBy({n}), "<spanx style=\"emph\">") > 0 =>
               opts.Comments.markers # {}

\* The pass is over: with Comments empty but not nil and the callout prefix
\* set, it rendered a code block and a math block whose literals hold a
\* comment followed by a callout.
C15_Witness ==
    /\ pc = "done"
    /\ ~opts.Comments.isNil /\ opts.Comments.markers = {} /\ opts.Callout = "co:"
    /\ \E m, n \in Literals :
          /\ Kind(m) = "CodeBlock" /\ Kind(n) = "MathBlock"
          /\ nodes[m].Literal = CalloutLiteral /\ nodes[n].Literal = CalloutLiteral
          /\ TextIn(m, TRUE) = "\n<figure><artwork>x&lt;1 //co:1&amp;</artwork></figure>\n"

\* The identifiers handed to the allocator so far, in order: the ones of the
\* headings entered that are not abstracts and carry one.
IsAbstractHeading(n) ==
    Kind(n) = "Heading" /\ nodes[n].IsSpecial /\ IsAbstract(nodes[n].Literal)
TakesID(c) ==
    /\ Kind(c.node) = "Heading" /\ c.entering
    /\ ~IsAbstractHeading(c.node)
    /\ nodes[c.node].HeadingID # ""
Candidates ==
    LET v == SelectSeq(log, TakesID)
    IN  [i \in 1..Len(v) |-> nodes[v[i].node].HeadingID]
\* The anchors written so far, in order.
Anchors ==
    LET at == SelectSeq([i \in 1..Len(w) |-> [i |-> i, t |-> w[i].t]],
                        LAMBDA x : x.i \in AnchorAt)
    IN  [k \in 1..Len(at) |-> at[k].t]
\* What the allocator returns for a sequence of identifiers, from the map ids
\* on, and the map it is left with.
RECURSIVE Allocated(_, _), MapAfter(_, _)
Allocated(ids, cands) ==
    IF cands = <<>> THEN <<>>
    ELSE LET u == ensureUniqueHeadingID(ids, Head(cands))
         IN  <<u.id>> \o Allocated(u.ids, Tail(cands))
MapAfter(ids, cands) ==
    IF cands = <<>> THEN ids
    ELSE MapAfter(ensureUniqueHeadingID(ids, Head(cands)).ids, Tail(cands))

\* C17: all through a pass, the anchors written are what the allocator gives,
\* from the empty map on, for the identifiers handed to it so far, and
\* headingIDs is the map it is left with: both are a function of that
\* sequence alone, so two passes that hand over the same identifiers write the
\* same anchors, whatever else they render and whatever documentMatter,
\* section and title are.
C17_AnchorsByCandidates ==
    /\ Anchors = Allocated(<<>>, Candidates)
    /\ headingIDs = MapAfter(<<>>, Candidates)

\* Two headings with the identifier "intro" wrote the anchors "intro" and
\* "intro-2", with a matter marker and an abstract between them.
C17_Witness ==
    /\ Anchors = <<"intro", "intro-2">>
    /\ Count(w, "<abstract>") = 1
    /\ \E j \in 1..Len(w) :
          /\ w[j].t = "<middle>"
          /\ Count(SubSeq(w, 1, j), "intro") = 1
          /\ Count(SubSeq(w, 1, j), "<abstract>") = 0
          /\ Count(SubSeq(w, 1, j), "intro-2") = 0

\* C19: a region tag written in the entering visit of a DocumentMatter node
\* has no heading's element open before it (the open one was closed first),
\* and after such a visit no section is recorded as open.
C19_MatterClosesSection ==
    /\ \A i \in 1..Len(w) :
          (ByDocumentMatter(w[i]) /\ w[i].t \in RegionTags) =>
              OpenElement(SubSeq(w, 1, i - 1)) = Nil
    /\ (log # <<>> /\ IsMatterVisit(LastCall)) => section = Nil

\* A DocumentMatter node closed a section and then wrote "<middle>".
C19_Witness ==
    \E i, j \in 1..Len(w) :
        /\ i < j
        /\ w[i].t = "</section>" /\ ByDocumentMatter(w[i])
        /\ w[j].t = "<middle>" /\ w[j].n = w[i].n

Headings == {n \in Ids : Kind(n) = "Heading"}
ClosingTags == {"</section>", "</note>", "</abstract>"}
\* What the entering visit of a heading wrote after it closed the element
\* that was open.
OpenedWith(n) == SelectSeq(WrittenIn(n, TRUE), LAMBDA t : t \notin ClosingTags)
Entered(id) ==
    Cardinality({i \in 1..Len(log) :
        TakesID(log[i]) /\ nodes[log[i].node].HeadingID = id})

\* C20: no special heading writes "<section".  An abstract writes "<abstract>"
\* and nothing else, its text writes nothing, and it takes no identifier:
\* headingIDs counts the other headings only.  Another special heading writes
\* "<note" followed by what a section writes after "<section" (the closing
\* tag of the element open before it left aside).  Every closing
\* tag of a heading's element is the one that matches the element open before
\* it, and it is written on entering a heading or a DocumentMatter node or by
\* RenderFooter; when the pass is over no element is open.
C20_SpecialHeadings ==
    /\ \A n \in Headings :
          /\ nodes[n].IsSpecial => Count(WrittenBy({n}), "<section") = 0
          /\ IsAbstractHeading(n) =>
                /\ Calls(n, TRUE) >= 1 => OpenedWith(n) = <<"<abstract>">>
                /\ WrittenBy(Subtree(n) \ {n}) = <<>>
          /\ (~IsAbstractHeading(n) /\ Calls(n, TRUE) >= 1) =>
                \E a \in {"intro", "intro-2", "intro-3", "intro-4", "intro-5"} :
                    OpenedWith(n) =
                        <<IF nodes[n].IsSpecial THEN "<note" ELSE "<section">>
                        \o (IF nodes[n].HeadingID = "" THEN <<>>
                            ELSE <<" anchor=\"", a, "\"">>)
                        \o <<" title=\"">>
    /\ \A id \in DOMAIN headingIDs : headingIDs[id] = Entered(id)
    /\ \A j \in 1..Len(w) :
          w[j].t \in ClosingTags =>
              LET h == OpenElement(SubSeq(w, 1, j - 1))
              IN  /\ h # Nil
                  /\ w[j].t = ClosingTag(h)
                  /\ \/ ByFooter(w[j])
                     \/ /\ w[j].n # Nil /\ w[j].e
                        /\ Kind(w[j].n) \in {"Heading", "DocumentMatter"}
    /\ pc = "done" => OpenElement(w) = Nil

\* The pass is over: an abstract that carries the identifier "intro" was
\* closed by "</abstract>" on entering a section that got the anchor "intro",
\* and a note was closed by "</note>" in RenderFooter.
C20_Witness ==
    /\ pc = "done"
    /\ \E i, j, k \in 1..Len(w) :
          /\ i < j /\ j < k
          /\ w[i].t = "<abstract>" /\ nodes[w[i].n].HeadingID = "intro"
          /\ w[j].t = "</abstract>" /\ w[j].n # Nil /\ Kind(w[j].n) = "Heading"
          /\ w[k].t = "</note>" /\ ByFooter(w[k])
    /\ Anchors = <<"intro", "intro-2">>

\* C18, as claimed: making a renderer and running a pass changes no variable
\* of the process outside the renderer: html.IDTag keeps the value it had.
C18_Claimed == [][IDTag' = IDTag]_vars

\* The tags a list opens with, and the ones that open and close a <t>.
ListTags ==
    {tagWithAttributes("<list", <<"style=\"symbols\"">>),
     tagWithAttributes("<list", <<"style=\"numbers\"">>),
     tagWithAttributes("<list", <<"start=\"3\"", "style=\"numbers\"">>),
     tagWithAttributes("<list", <<"style=\"hanging\"">>)}
OpensT(tok) == tok.t \in {"<t>", "<t hangText=\""}
ClosesT(tok) == tok.t = "</t>"
IsTag(str) == str \in ListTags \cup {"</list>", "<t>", "</t>"}
ListsOf == {n \in Ids : Kind(n) = "List"}
Wrapped(n) == Kind(nodes[n].Parent) # "ListItem"
\* The <t> open after the first k tokens of the output.
Depth(k) ==
    Cardinality({i \in 1..k : OpensT(w[i])}) - Cardinality({i \in 1..k : ClosesT(w[i])})

\* Of the tags, the entering visit of a list wrote its opening tag, after a
\* "<t>" exactly if the list's parent is not a list item; the exiting visit
\* wrote "</list>", before a "</t>" on the same condition.
ListTagsMatch ==
    \A n \in ListsOf :
        /\ Calls(n, TRUE) >= 1 =>
              \E tag \in ListTags :
                  SelectSeq(WrittenIn(n, TRUE), IsTag)
                      = (IF Wrapped(n) THEN <<"<t>">> ELSE <<>>) \o <<tag>>
        /\ SelectSeq(WrittenIn(n, FALSE), IsTag)
              = IF Calls(n, FALSE) = 0 THEN <<>>
                ELSE <<"</list>">> \o (IF Wrapped(n) THEN <<"</t>">> ELSE <<>>)
\* A paragraph in a list item wrote neither "<t>" nor "</t>".
ItemParagraphsBare ==
    \A n \in Ids :
        (Kind(n) = "Paragraph" /\ Kind(nodes[n].Parent) = "ListItem") =>
            /\ Count(WrittenBy({n}), "<t>") = 0
            /\ Count(WrittenBy({n}), "</t>") = 0
\* No "</t>" without a <t> open before it, and none left open after the pass.
TBalanced ==
    /\ \A k \in 1..Len(w) : Depth(k) >= 0
    /\ pc = "done" => Depth(Len(w)) = 0

\* C21, as claimed: every list's visits write matching tags, wrapped in <t>
\* and </t> exactly if the list's parent is not a list item; a paragraph in a
\* list item writes neither, and <t> and </t> are balanced over the pass, for
\* every tree of lists, list items and paragraphs.
C21_Claimed == ListTagsMatch /\ ItemParagraphsBare /\ TBalanced

====
